---- MODULE Spec2Model ----
(***************************************************************************)
(* Model of pgsqltoolsservice/language/sqlautocomplete/autocomplete.py:    *)
(* the Matcher (keyword registry, identifier escaping, find_matches) and   *)
(* the SuggestionMatcher (dispatcher, handlers, populate_schema_objects);  *)
(* of Scripter.script_as_select (scripting/scripter.py), of ForeignTable   *)
(* (pgsmo/objects/foreign_table/foreign_table.py) and of the request       *)
(* handlers of the ObjectExplorerService                                   *)
(* (object_explorer/object_explorer_service.py).                           *)
(*                                                                         *)
(* A Python str is a sequence of one-character strings.  None is the       *)
(* value NoneVal, which is no sequence of characters.  A call that raises  *)
(* is recorded with the exception's name in "raised" and returns nothing.  *)
(***************************************************************************)
EXTENDS Integers, Sequences, FiniteSets, TLC

VARIABLES
    keywords,        \* Matcher.keywords: list of str
    reserved_words,  \* Matcher.reserved_words: set of str
    keyword_counts,  \* Matcher.prioritizer: keyword usage counter
    name_counts,     \* Matcher.prioritizer: name usage counter
    schemas,         \* SuggestionMatcher.schemas: its keys, in insertion order
    session_map,     \* ObjectExplorerService._session_map: session id -> details
    call             \* the call made on the session and its outcome

vars == <<keywords, reserved_words, keyword_counts, name_counts, schemas,
          session_map, call>>

---------------------------------------------------------------------------
(* Bounds of the model *)

\* longest name / candidate the inputs hold
MaxLen == 3
\* longest partial text (the text in the range before the cursor)
MaxTextLen == 2
\* largest candidate pool of one find_matches call of the session
MaxPool == 2
\* highest usage count a counter records
MaxCount == 1

---------------------------------------------------------------------------
(* Characters and str methods *)

QUOTE == "\""
LowerLetters == <<"a","b","c","d","e","f","g","h","i","j","k","l","m",
                  "n","o","p","q","r","s","t","u","v","w","x","y","z">>
UpperLetters == <<"A","B","C","D","E","F","G","H","I","J","K","L","M",
                  "N","O","P","Q","R","S","T","U","V","W","X","Y","Z">>
Digits == <<"0","1","2","3","4","5","6","7","8","9">>
Whitespace == {" "}

Range(s) == {s[i] : i \in 1..Len(s)}
IndexOf(s, c) == CHOOSE i \in 1..Len(s) : s[i] = c

\* ord(c)
Ord(c) ==
    IF c \in Range(LowerLetters) THEN 96 + IndexOf(LowerLetters, c)
    ELSE IF c \in Range(UpperLetters) THEN 64 + IndexOf(UpperLetters, c)
    ELSE IF c \in Range(Digits) THEN 47 + IndexOf(Digits, c)
    ELSE IF c = QUOTE THEN 34
    ELSE IF c = "$" THEN 36
    ELSE IF c = "." THEN 46
    ELSE IF c = "_" THEN 95
    ELSE 32

LowerChar(c) ==
    IF c \in Range(UpperLetters) THEN LowerLetters[IndexOf(UpperLetters, c)] ELSE c
UpperChar(c) ==
    IF c \in Range(LowerLetters) THEN UpperLetters[IndexOf(LowerLetters, c)] ELSE c

\* str.lower() and str.upper()
Lower(s) == [i \in 1..Len(s) |-> LowerChar(s[i])]
Upper(s) == [i \in 1..Len(s) |-> UpperChar(s[i])]

\* s[a:b] for 0 <= a, 0 <= b (Python slice: clipped to the string)
Slice(s, a, b) ==
    LET hi == IF b < Len(s) THEN b ELSE Len(s)
    IN  IF a >= hi THEN <<>> ELSE SubSeq(s, a + 1, hi)

\* str.find(sub, start, end): lowest 0-based index in s[start:end] where sub
\* is found, -1 if there is none
Find(s, sub, start, end) ==
    LET hi   == IF end < Len(s) THEN end ELSE Len(s)
        hits == {i \in start..hi :
                    /\ i + Len(sub) <= hi
                    /\ Slice(s, i, i + Len(sub)) = sub}
    IN  IF hits = {} THEN -1 ELSE CHOOSE i \in hits : \A j \in hits : i <= j

\* str.split(): the maximal runs of non-whitespace characters
SplitWords(s) ==
    {SubSeq(s, r[1], r[2]) :
        r \in {p \in (1..Len(s)) \X (1..Len(s)) :
                 /\ p[1] <= p[2]
                 /\ \A q \in p[1]..p[2] : s[q] \notin Whitespace
                 /\ (p[1] = 1 \/ s[p[1] - 1] \in Whitespace)
                 /\ (p[2] = Len(s) \/ s[p[2] + 1] \in Whitespace)}}

\* the Python value None
NoneVal == <<"<None>">>
\* bool(v) of a str or None
Truthy(v) == v # NoneVal /\ v # <<>>

---------------------------------------------------------------------------
(* Input sets *)

\* the characters the inputs are written in: two lower-case letters, an
\* upper-case letter, a digit and the double quote
Chars == {"a", "b", "A", "1", QUOTE}
Str(n) == UNION {[1..k -> Chars] : k \in 0..n}
Names == Str(MaxLen)
Texts == Str(MaxTextLen)

\* the rows pg_get_keywords() returns, already upper-cased by the query
KeywordRows == {<<>>, << <<"A">> >>, << <<"A">>, <<"A", "1">> >>}
\* the keywords / names whose usage the host records
UsedKeywords == {<<"a", "1">>}
UsedNames == {<<"a">>}

---------------------------------------------------------------------------
(* Matcher: keyword registry *)

\* Matcher.init_keywords: cols, rows = execute_dict(sql)
init_keywords_list(cols, rows) == IF cols # <<>> THEN rows ELSE <<>>
init_reserved_words(cols, rows) ==
    UNION {SplitWords(w) : w \in Range(init_keywords_list(cols, rows))}

---------------------------------------------------------------------------
(* Matcher: identifier escaping *)

\* _NAME_PATTERN = re.compile(r'^[_a-z][_a-z0-9\$]*$'), .match(name)
name_pattern_match(name) ==
    /\ Len(name) >= 1
    /\ name[1] \in Range(LowerLetters) \cup {"_"}
    /\ \A i \in 2..Len(name) :
          name[i] \in Range(LowerLetters) \cup Range(Digits) \cup {"_", "$"}

escape_name_no_reserved_check(name, reserved) ==
    IF name # <<>> /\ ~name_pattern_match(name)
    THEN <<QUOTE>> \o name \o <<QUOTE>>
    ELSE name

\* Matcher.escape_name
escape_name(name, reserved) ==
    IF name # <<>> /\ ((~name_pattern_match(name)) \/ (Upper(name) \in reserved))
    THEN <<QUOTE>> \o name \o <<QUOTE>>
    ELSE name

unescape_name_strip_leading_only(name) ==
    IF name # <<>> /\ name[1] = QUOTE
    THEN Slice(name, 1, Len(name))
    ELSE name

\* Matcher.unescape_name
unescape_name(name) ==
    IF name # <<>> /\ name[1] = QUOTE /\ name[Len(name)] = QUOTE
    THEN Slice(name, 1, Len(name) - 1)
    ELSE name

\* Matcher.escaped_names
escaped_names(names, reserved) ==
    [i \in 1..Len(names) |-> escape_name(names[i], reserved)]

---------------------------------------------------------------------------
(* PrevalenceCounter (prioritization module): usage counters, read by      *)
(* find_matches through keyword_count / name_count                         *)

\* a counter's value for a key: 0 if the key was never recorded
Count(counter, key) == IF key \in DOMAIN counter THEN counter[key] ELSE 0

\* PrevalenceCounter.keyword_count / PrevalenceCounter.name_count
keyword_count(counter, keyword) == Count(counter, keyword)
name_count(counter, name) == Count(counter, name)

\* recording one use of a key
Increment(counter, key) ==
    [k \in DOMAIN counter \cup {key} |->
        IF k = key THEN Count(counter, k) + 1 ELSE counter[k]]

---------------------------------------------------------------------------
(* Matcher.find_matches *)

MatchModeStrict == "MatchMode.Strict"
MatchModeFuzzy == "MatchMode.Fuzzy"
Modes == {MatchModeStrict, MatchModeFuzzy}

\* numbers of a sort key: an int n, or the float -inf
Int_(n) == [inf |-> FALSE, n |-> n]
NegInfinity == [inf |-> TRUE, n |-> 0]
\* a < b for two such numbers
NumLess(a, b) ==
    IF b.inf THEN FALSE ELSE IF a.inf THEN TRUE ELSE a.n < b.n

\* the partial text find_matches matches on: the text in the range,
\* lower-cased, without a leading double quote
partial_text(raw) ==
    LET text == Lower(raw)
    IN  IF text # <<>> /\ text[1] = QUOTE THEN Slice(text, 1, Len(text)) ELSE text

\* the regex '(t1.*?t2.*?...tn)' matched at s from the 1-based position j on,
\* for the characters t[k..]: the index of the last character the match
\* consumes, -1 if there is no match.  A lazy gap takes the shortest run of
\* non-newline characters after which the rest still matches.
RECURSIVE regex_tail(_, _, _, _)
regex_tail(t, s, k, j) ==
    IF k > Len(t) THEN j - 1
    ELSE LET ok == {p \in j..Len(s) :
                      /\ s[p] = t[k]
                      /\ \A q \in j..(p - 1) : s[q] # "\n"
                      /\ regex_tail(t, s, k + 1, p + 1) # -1}
         IN  IF ok = {} THEN -1
             ELSE regex_tail(t, s, k + 1, (CHOOSE p \in ok : \A q \in ok : p <= q) + 1)

\* pat.search(s) for pat = re.compile('(%s)' % '.*?'.join(map(re.escape, t))):
\* the match at the leftmost position that has one
pat_search(t, s) ==
    IF t = <<>> THEN [found |-> TRUE, start |-> 0, group |-> <<>>]
    ELSE LET starts == {i \in 1..Len(s) :
                           s[i] = t[1] /\ regex_tail(t, s, 2, i + 1) # -1}
         IN  IF starts = {} THEN [found |-> FALSE]
             ELSE LET i == CHOOSE x \in starts : \A y \in starts : x <= y
                  IN  [found |-> TRUE, start |-> i - 1,
                       group |-> SubSeq(s, i, regex_tail(t, s, 2, i + 1))]

\* what _match returns for an item it rejects (None)
NoMatch == [ok |-> FALSE]

fuzzy_match_length_of_text(text, item) ==
    LET result == pat_search(text, unescape_name(Lower(item)))
    IN  IF result.found
        THEN [ok |-> TRUE, key |-> <<Int_(-Len(text)), -result.start>>]
        ELSE NoMatch

\* _match of the fuzzy branch
fuzzy_match(text, item) ==
    LET result == pat_search(text, unescape_name(Lower(item)))
    IN  IF result.found
        THEN [ok |-> TRUE, key |-> <<Int_(-Len(result.group)), -result.start>>]
        ELSE NoMatch

strict_match_anywhere(text, item) ==
    LET match_point == Find(Lower(item), text, 0, Len(item))
    IN  IF match_point >= 0
        THEN [ok |-> TRUE, key |-> <<NegInfinity, -match_point>>]
        ELSE NoMatch

strict_match_finite_key(text, item) ==
    LET match_point == Find(Lower(item), text, 0, Len(text))
    IN  IF match_point >= 0
        THEN [ok |-> TRUE, key |-> <<Int_(0), -match_point>>]
        ELSE NoMatch

\* _match of the strict branch
strict_match(text, item) ==
    LET match_end_limit == Len(text)
        match_point == Find(Lower(item), text, 0, match_end_limit)
    IN  IF match_point >= 0
        THEN [ok |-> TRUE, key |-> <<NegInfinity, -match_point>>]
        ELSE NoMatch

truncate_meta_cut_at_50(meta) ==
    IF Truthy(meta) /\ Len(meta) > 50
    THEN Slice(meta, 0, 50) \o <<".", ".", ".">>
    ELSE meta

\* the meta attached to a match: longer than 50 characters, its first 47
\* and '...'
truncate_meta(meta) ==
    IF Truthy(meta) /\ Len(meta) > 50
    THEN Slice(meta, 0, 47) \o <<".", ".", ".">>
    ELSE meta

lexical_priority_no_terminator(item) ==
    LET name == unescape_name(item)
    IN  [i \in 1..Len(name) |-> -Ord(name[i])]

\* tuple(-ord(c) for c in self.unescape_name(item)) + (1,)
lexical_priority(item) ==
    LET name == unescape_name(item)
    IN  [i \in 1..Len(name) |-> -Ord(name[i])] \o <<1>>

\* Matcher._to_completion_item (the text edit replaces the range by item)
to_completion_item(item, detail) ==
    [label |-> item, insert_text |-> item, detail |-> detail]

\* the (item, meta) pairs the loop iterates over.  Only the strict branch
\* zips the collection with the meta; in the fuzzy branch "for item, meta in
\* collection" unpacks each element of the collection itself: a str of two
\* characters gives (first, second), any other str raises ValueError.
Unpackable(collection, fuzzy) ==
    fuzzy => \A i \in 1..Len(collection) : Len(collection[i]) = 2
LoopPairs(collection, fuzzy, meta) ==
    [i \in 1..Len(collection) |->
        IF fuzzy
        THEN [item |-> <<collection[i][1]>>, meta |-> <<collection[i][2]>>]
        ELSE [item |-> collection[i], meta |-> meta]]

\* the loop of find_matches over the first n pairs: the matches appended
RECURSIVE matches_of(_, _, _, _, _, _)
matches_of(pairs, n, text, fuzzy, kwc, nmc) ==
    IF n = 0 THEN <<>>
    ELSE LET item == pairs[n].item
             sort_key == IF fuzzy THEN fuzzy_match(text, item)
                                  ELSE strict_match(text, item)
             count == IF fuzzy THEN name_count(nmc, item)
                               ELSE keyword_count(kwc, item)
             rest == matches_of(pairs, n - 1, text, fuzzy, kwc, nmc)
         IN  IF sort_key.ok
             THEN Append(rest,
                    [completion |-> to_completion_item(item, truncate_meta(pairs[n].meta)),
                     priority |-> <<sort_key.key, count, lexical_priority(item)>>])
             ELSE rest

Returns(value) == [raised |-> "None", ret |-> value]
Raises(exception) == [raised |-> exception, ret |-> NoneVal]

\* Matcher.find_matches(script_file, text_range, collection, mode, meta), with
\* raw the text script_file holds in text_range and kwc, nmc the counters
find_matches(raw, collection, mode, meta, kwc, nmc) ==
    LET text == partial_text(raw)
        fuzzy == (mode = MatchModeFuzzy)
    IN  IF ~Unpackable(collection, fuzzy) THEN Raises("ValueError")
        ELSE Returns(matches_of(LoopPairs(collection, fuzzy, meta),
                                Len(collection), text, fuzzy, kwc, nmc))

\* comparison of two priorities, as Python compares the nested tuples
RECURSIVE TupleLess(_, _)
TupleLess(a, b) ==
    IF a = <<>> THEN b # <<>>
    ELSE IF b = <<>> THEN FALSE
    ELSE IF Head(a) # Head(b) THEN Head(a) < Head(b)
    ELSE TupleLess(Tail(a), Tail(b))
SortKeyLess(a, b) ==
    IF a[1] # b[1] THEN NumLess(a[1], b[1]) ELSE a[2] < b[2]
PriorityLess(p, q) ==
    IF p[1] # q[1] THEN SortKeyLess(p[1], q[1])
    ELSE IF p[2] # q[2] THEN p[2] < q[2]
    ELSE TupleLess(p[3], q[3])

---------------------------------------------------------------------------
(* SuggestionMatcher: dispatch on the suggestion's type *)

\* the suggestion types SuggestionMatcher.__init__ registers
SuggestionTypes == {"Column", "Function", "Schema", "Table", "View", "Alias",
                    "Database", "Keyword", "Datatype"}

\* SuggestionMatcher.suggestion_matchers: each value a bound method of self
suggestion_matchers ==
    [t \in SuggestionTypes |->
        CASE t = "Column"   -> "get_column_matches"
          [] t = "Function" -> "get_function_matches"
          [] t = "Schema"   -> "get_schema_matches"
          [] t = "Table"    -> "get_table_matches"
          [] t = "View"     -> "get_view_matches"
          [] t = "Alias"    -> "get_alias_matches"
          [] t = "Database" -> "get_database_matches"
          [] t = "Keyword"  -> "get_keyword_matches"
          [] t = "Datatype" -> "get_datatype_matches"]

\* the parameters of the get_*_matches methods
handler_parameters(method) ==
    IF method \in {"get_schema_matches", "get_database_matches", "get_keyword_matches"}
    THEN <<"self", "_", "word_before_cursor">>
    ELSE <<"self", "suggestion", "word_before_cursor">>

\* the names the suggestions, the server and the labels are written in
pg_prefix == <<"p", "g", "_">>
pg_class == <<"p", "g", "_", "c", "l", "a", "s", "s">>
pg_user == <<"p", "g", "_", "u", "s", "e", "r">>
pg_temp == <<"p", "g", "_", "t", "e", "m", "p">>
orders == <<"o", "r", "d", "e", "r", "s">>
public == <<"p", "u", "b", "l", "i", "c">>
postgres == <<"p", "o", "s", "t", "g", "r", "e", "s">>
is_set_returning == <<"i", "s", "_", "s", "e", "t">>
wildcard == <<"*">>
label_column == <<"c", "o", "l", "u", "m", "n">>
label_function == <<"f", "u", "n", "c", "t", "i", "o", "n">>
label_schema == <<"s", "c", "h", "e", "m", "a">>
label_table == <<"t", "a", "b", "l", "e">>
label_view == <<"v", "i", "e", "w">>
label_alias == <<"t", "a", "b", "l", "e", " ", "a", "l", "i", "a", "s">>
label_database == <<"d", "a", "t", "a", "b", "a", "s", "e">>
label_keyword == <<"k", "e", "y", "w", "o", "r", "d">>
label_datatype == <<"d", "a", "t", "a", "t", "y", "p", "e">>

\* str.startswith(prefix)
str_startswith(s, prefix) == Slice(s, 0, Len(prefix)) = prefix

\* [x for x in names if not x.startswith('pg_')]
without_pg(names) == SelectSeq(names, LAMBDA x : ~str_startswith(x, pg_prefix))

\* the parameters of Matcher.find_matches that have no default
find_matches_required == <<"script_file", "text_range", "collection">>

\* self.matcher.find_matches(word_before_cursor, pool, mode='strict',
\* meta=label), as every handler calls it: the two positional arguments bind
\* script_file and text_range, mode and meta are given by keyword, and
\* collection, which has no default, is missing: TypeError.  (With three
\* positional arguments the str given as script_file has no
\* get_text_in_range: AttributeError.)
handler_find_matches(word_before_cursor, pool, label) ==
    LET positional == <<word_before_cursor, pool>>
    IN  IF Len(positional) < Len(find_matches_required)
        THEN Raises("TypeError")
        ELSE Raises("AttributeError")

\* SuggestionMatcher._get_schema: next(s for s in self.schemas if s.name ==
\* schema_name) iterates over the keys of the dict, which are str: s.name
\* raises AttributeError on the first key, and next() raises StopIteration
\* when the dict is empty
get_schema(self, schema_name) ==
    IF Truthy(schema_name)
    THEN IF self.schemas = <<>> THEN Raises("StopIteration")
                                ELSE Raises("AttributeError")
    ELSE Returns(NoneVal)

\* SuggestionMatcher.populate_schema_objects, up to the statement that raises
\* in every call: getattr(schema, obj_type) on a key of self.schemas (a str),
\* or, when self.schemas is empty and schema is still None, self.search_path,
\* which SuggestionMatcher does not define.  (A schema object would raise
\* TypeError at '\'' + schema: _get_schema returns none.)  The statements
\* that ask the connection (self.conn.connected(), execute_dict) are never
\* reached.
populate_schema_objects(self, schema_name, obj_type) ==
    LET schema == get_schema(self, schema_name)
    IN  IF schema.raised # "None" THEN schema
        ELSE IF Truthy(schema.ret) THEN Raises("TypeError")
        ELSE IF self.schemas # <<>> THEN Raises("AttributeError")
        ELSE Raises("AttributeError")

\* self.populate_scoped_cols / self.populate_functions: SuggestionMatcher
\* defines neither, the attribute lookup raises AttributeError
populate_scoped_cols(self, tables) == Raises("AttributeError")
populate_functions(self, schema_name) == Raises("AttributeError")

\* [col for (col, count) in Counter(scoped_cols).items()
\*      if count > 1 and col != '*'], over the first n columns: a Counter
\* lists its keys in the order of their first occurrence
RECURSIVE more_than_once(_, _)
more_than_once(scoped_cols, n) ==
    IF n = 0 THEN <<>>
    ELSE LET col == scoped_cols[n]
             count == Cardinality({i \in 1..Len(scoped_cols) : scoped_cols[i] = col})
             rest == more_than_once(scoped_cols, n - 1)
         IN  IF /\ \A i \in 1..(n - 1) : scoped_cols[i] # col
                /\ count > 1
                /\ col # wildcard
             THEN Append(rest, col)
             ELSE rest

\* SuggestionMatcher.get_column_matches
get_column_matches(self, suggestion, word_before_cursor) ==
    LET scoped_cols == populate_scoped_cols(self, suggestion.tables)
    IN  IF scoped_cols.raised # "None" THEN scoped_cols
        ELSE handler_find_matches(word_before_cursor,
                 IF suggestion.drop_unique
                 THEN more_than_once(scoped_cols.ret, Len(scoped_cols.ret))
                 ELSE scoped_cols.ret,
                 label_column)

\* SuggestionMatcher.get_function_matches (set(funcs) is the set of the
\* names)
get_function_matches(self, suggestion, word_before_cursor) ==
    LET funcs == IF suggestion.filter = is_set_returning
                 THEN populate_functions(self, suggestion.schema)
                 ELSE populate_schema_objects(self, suggestion.schema, "functions")
    IN  IF funcs.raised # "None" THEN funcs
        ELSE handler_find_matches(word_before_cursor, Range(funcs.ret),
                                  label_function)

\* SuggestionMatcher.get_schema_matches: schema_names is the bound method
\* self._schema_names, which is not called: iterating over it in the list
\* comprehension raises TypeError
get_schema_matches(self, suggestion, word_before_cursor) ==
    IF ~str_startswith(word_before_cursor, pg_prefix)
    THEN Raises("TypeError")
    ELSE handler_find_matches(word_before_cursor, "self._schema_names",
                              label_schema)

\* SuggestionMatcher.get_table_matches
get_table_matches(self, suggestion, word_before_cursor) ==
    LET tables == populate_schema_objects(self, suggestion.schema, "tables")
    IN  IF tables.raised # "None" THEN tables
        ELSE handler_find_matches(word_before_cursor,
                 IF (~Truthy(suggestion.schema))
                        /\ ~str_startswith(word_before_cursor, pg_prefix)
                 THEN without_pg(tables.ret)
                 ELSE tables.ret,
                 label_table)

\* SuggestionMatcher.get_view_matches
get_view_matches(self, suggestion, word_before_cursor) ==
    LET views == populate_schema_objects(self, suggestion.schema, "views")
    IN  IF views.raised # "None" THEN views
        ELSE handler_find_matches(word_before_cursor,
                 IF (~Truthy(suggestion.schema))
                        /\ ~str_startswith(word_before_cursor, pg_prefix)
                 THEN without_pg(views.ret)
                 ELSE views.ret,
                 label_view)

\* SuggestionMatcher.get_alias_matches
get_alias_matches(self, suggestion, word_before_cursor) ==
    handler_find_matches(word_before_cursor, suggestion.aliases, label_alias)

\* SuggestionMatcher.get_database_matches
get_database_matches(self, suggestion, word_before_cursor) ==
    handler_find_matches(word_before_cursor, self.server.databases,
                         label_database)

\* SuggestionMatcher.get_keyword_matches: self.find_matches is looked up on
\* the SuggestionMatcher, which has no such attribute (and no keywords)
get_keyword_matches(self, suggestion, word_before_cursor) ==
    Raises("AttributeError")

\* SuggestionMatcher.get_datatype_matches: no names are left out here
get_datatype_matches(self, suggestion, word_before_cursor) ==
    LET types == populate_schema_objects(self, suggestion.schema, "datatypes")
    IN  IF types.raised # "None" THEN types
        ELSE handler_find_matches(word_before_cursor, types.ret, label_datatype)

\* the call of a handler with its three arguments
call_handler(method, self, suggestion, word_before_cursor) ==
    CASE method = "get_column_matches" ->
            get_column_matches(self, suggestion, word_before_cursor)
      [] method = "get_function_matches" ->
            get_function_matches(self, suggestion, word_before_cursor)
      [] method = "get_schema_matches" ->
            get_schema_matches(self, suggestion, word_before_cursor)
      [] method = "get_table_matches" ->
            get_table_matches(self, suggestion, word_before_cursor)
      [] method = "get_view_matches" ->
            get_view_matches(self, suggestion, word_before_cursor)
      [] method = "get_alias_matches" ->
            get_alias_matches(self, suggestion, word_before_cursor)
      [] method = "get_database_matches" ->
            get_database_matches(self, suggestion, word_before_cursor)
      [] method = "get_keyword_matches" ->
            get_keyword_matches(self, suggestion, word_before_cursor)
      [] method = "get_datatype_matches" ->
            get_datatype_matches(self, suggestion, word_before_cursor)

get_suggestion_matches_default_handler(self, suggestion, word_before_cursor) ==
    LET suggestion_type == suggestion.type
        matcher == IF suggestion_type \in DOMAIN suggestion_matchers
                   THEN suggestion_matchers[suggestion_type]
                   ELSE "get_keyword_matches"
        positional == <<"self", suggestion, word_before_cursor>>
    IN  IF 1 + Len(positional) # Len(handler_parameters(matcher))
        THEN Raises("TypeError")
        ELSE call_handler(matcher, self, suggestion, word_before_cursor)

\* SuggestionMatcher.get_suggestion_matches: the handler looked up is a bound
\* method, and it is called with self as well: matcher(self, suggestion,
\* word_before_cursor) binds self and three positional arguments to the
\* handler's three parameters, which raises TypeError before the handler runs.
\* A type that is no key of suggestion_matchers raises KeyError at the lookup.
get_suggestion_matches(self, suggestion, word_before_cursor) ==
    LET suggestion_type == suggestion.type
    IN  IF suggestion_type \notin DOMAIN suggestion_matchers
        THEN Raises("KeyError")
        ELSE LET matcher == suggestion_matchers[suggestion_type]
                 positional == <<"self", suggestion, word_before_cursor>>
             IN  IF 1 + Len(positional) # Len(handler_parameters(matcher))
                 THEN Raises("TypeError")
                 ELSE call_handler(matcher, self, suggestion, word_before_cursor)

---------------------------------------------------------------------------
(* Session state machine *)

\* the candidate names of the session's pools: a name, its quoted form, two
\* extensions of it, an upper-case name, a name it is no prefix of
PoolNames == {<<"a">>, <<QUOTE, "a", QUOTE>>, <<"a", "1">>, <<"a", "a">>, <<"A">>,
              <<"b", "a">>}
Pools == UNION {[1..k -> PoolNames] : k \in 0..MaxPool}
\* the partial texts of the session's calls
SessionTexts == {<<>>, <<"a">>, <<QUOTE, "a">>, <<"1">>}
\* a label of n characters, no two of ten successive ones equal
LongLabel(n) == [i \in 1..n |-> Digits[((i - 1) % 10) + 1]]
\* the metas: none, a short label, labels of 50, 51 and 60 characters
Metas == {NoneVal, <<"t", "a", "b", "l", "e">>, LongLabel(50), LongLabel(51),
          LongLabel(60)}

\* the schemas of the maintenance database, as _load_schemas reads them
SchemaLists == {<<>>, <<public, pg_temp>>}

\* the tables of a Column suggestion and the columns the server holds for
\* them
t1 == <<"t", "1">>
t2 == <<"t", "2">>
TableColumns ==
    (t1 :> << <<"i", "d">>, <<"n", "a", "m", "e">> >>)
        @@ (t2 :> << <<"i", "d">>, <<"e", "m", "a", "i", "l">> >>)

\* the object names the server holds for the kind asked for: none, system
\* and user names, one name twice (two overloads of a function)
ObjectLists == {<<>>, <<pg_class, orders, pg_user>>, <<orders, orders>>}

\* the server during one request: its databases, whether the connection is
\* up (conn.connected()), whether the query succeeds (status) and the rows
\* it answers
Servers ==
    {sv \in [databases : {<<>>, <<postgres>>}, connected : BOOLEAN,
              status : BOOLEAN, rows : ObjectLists, columns : {TableColumns}] :
        /\ (~sv.connected) => ~sv.status
        /\ (~sv.status) => sv.rows = <<>>
        /\ sv.databases = <<>> => sv.rows = <<>>}

\* the SuggestionMatcher object of the session, with the server as it is
\* during the request
Self(server) == [schemas |-> schemas, server |-> server]

\* the suggestions of the session's requests, by type
ColumnSuggestions ==
    {[type |-> "Column", tables |-> t, drop_unique |-> d] :
        t \in {<<>>, <<t1, t2>>}, d \in BOOLEAN}
FunctionSuggestions ==
    {[type |-> "Function", schema |-> s, filter |-> f] :
        s \in {NoneVal, public}, f \in {NoneVal, is_set_returning}}
SchemaSuggestions == {[type |-> "Schema"]}
TableSuggestions == {[type |-> "Table", schema |-> s] : s \in {NoneVal, public}}
ViewSuggestions == {[type |-> "View", schema |-> s] : s \in {NoneVal, public}}
AliasSuggestions ==
    {[type |-> "Alias", aliases |-> a] : a \in {<<>>, <<orders>>}}
DatabaseSuggestions == {[type |-> "Database"]}
KeywordSuggestions == {[type |-> "Keyword"]}
DatatypeSuggestions ==
    {[type |-> "Datatype", schema |-> s] : s \in {NoneVal, public}}

\* the suggestions of the session's requests: of each registered type, and
\* a Match, which is no suggestion type
Suggestions ==
    ColumnSuggestions \cup FunctionSuggestions \cup SchemaSuggestions
        \cup TableSuggestions \cup ViewSuggestions \cup AliasSuggestions
        \cup DatabaseSuggestions \cup KeywordSuggestions
        \cup DatatypeSuggestions \cup {[type |-> "Match"]}

\* the words before the cursor of the session's requests
HandlerWords == {<<>>, pg_prefix, <<"o">>}

NoCall == [op |-> "none"]
Idle == call = NoCall

\* Matcher.__init__: init_keywords() on the server's answer, a fresh
\* PrevalenceCounter; SuggestionMatcher.__init__: _load_schemas();
\* ObjectExplorerService.__init__: an empty session map
Init ==
    \E cols \in {<<>>, <<"word">>}, rows \in KeywordRows :
        /\ keywords = init_keywords_list(cols, rows)
        /\ reserved_words = init_reserved_words(cols, rows)
        /\ keyword_counts = <<>>
        /\ name_counts = <<>>
        /\ schemas \in SchemaLists
        /\ session_map = <<>>
        /\ call = NoCall

\* a call of escape_name / unescape_name on a name
EscapeName ==
    /\ Idle
    /\ \E name \in Names :
          call' = [op |-> "escape_name", name |-> name]
                     @@ Returns(escape_name(name, reserved_words))
    /\ UNCHANGED <<keywords, reserved_words, keyword_counts, name_counts, schemas,
                 session_map>>

UnescapeName ==
    /\ Idle
    /\ \E name \in Names :
          call' = [op |-> "unescape_name", name |-> name]
                     @@ Returns(unescape_name(name))
    /\ UNCHANGED <<keywords, reserved_words, keyword_counts, name_counts, schemas,
                 session_map>>

\* the record of a find_matches call: its arguments and its outcome under
\* the counters of the session
FindMatchesCall(raw, collection, mode, meta) ==
    [op |-> "find_matches", text |-> raw, collection |-> collection,
     mode |-> mode, meta |-> meta]
       @@ find_matches(raw, collection, mode, meta, keyword_counts, name_counts)

FindMatchesRecordingUsage ==
    /\ Idle
    /\ \E raw \in SessionTexts, collection \in Pools, mode \in Modes, meta \in Metas :
          call' = FindMatchesCall(raw, collection, mode, meta)
    /\ \E name \in UsedNames :
          name_counts' = IF Count(name_counts, name) < MaxCount
                         THEN Increment(name_counts, name)
                         ELSE name_counts
    /\ UNCHANGED <<keywords, reserved_words, keyword_counts, schemas, session_map>>

\* a call of find_matches on a pool of the session
FindMatches ==
    /\ Idle
    /\ \E raw \in SessionTexts, collection \in Pools, mode \in Modes, meta \in Metas :
          call' = FindMatchesCall(raw, collection, mode, meta)
    /\ UNCHANGED <<keywords, reserved_words, keyword_counts, name_counts, schemas,
                 session_map>>

\* the host records one use of a keyword / of a name
RecordKeywordUsage ==
    /\ Idle
    /\ \E word \in UsedKeywords :
          /\ Count(keyword_counts, word) < MaxCount
          /\ keyword_counts' = Increment(keyword_counts, word)
    /\ UNCHANGED <<keywords, reserved_words, name_counts, schemas, session_map, call>>

RecordNameUsage ==
    /\ Idle
    /\ \E name \in UsedNames :
          /\ Count(name_counts, name) < MaxCount
          /\ name_counts' = Increment(name_counts, name)
    /\ UNCHANGED <<keywords, reserved_words, keyword_counts, schemas, session_map, call>>

\* the record of a request to the SuggestionMatcher: its arguments, the
\* server during the request and the outcome
HandlerCall(op, suggestion, word_before_cursor, server, outcome) ==
    [op |-> op, suggestion |-> suggestion,
     word_before_cursor |-> word_before_cursor, server |-> server] @@ outcome

\* a ranking request
GetSuggestionMatches ==
    /\ Idle
    /\ \E suggestion \in Suggestions, word_before_cursor \in HandlerWords,
          server \in Servers :
          call' = HandlerCall("get_suggestion_matches", suggestion,
                              word_before_cursor, server,
                              get_suggestion_matches(Self(server), suggestion,
                                                     word_before_cursor))
    /\ UNCHANGED <<keywords, reserved_words, keyword_counts, name_counts, schemas,
                 session_map>>

\* a find_matches call whose loop is between two candidates
InFlight == call.op = "find_matches_in_flight"

\* the caller takes the outcome of the call; the session is idle again
Return ==
    /\ ~Idle
    /\ ~InFlight
    /\ call' = NoCall
    /\ UNCHANGED <<keywords, reserved_words, keyword_counts, name_counts, schemas,
                 session_map>>

Next ==
    \/ EscapeName
    \/ UnescapeName
    \/ FindMatches
    \/ GetSuggestionMatches
    \/ RecordKeywordUsage
    \/ RecordNameUsage
    \/ Return

Spec == Init /\ [][Next]_vars

\* a call of find_matches on one candidate, for every partial text and
\* every candidate
FindOne ==
    /\ Idle
    /\ \E raw \in Texts, item \in Names, mode \in Modes :
          call' = FindMatchesCall(raw, <<item>>, mode, NoneVal)
    /\ UNCHANGED <<keywords, reserved_words, keyword_counts, name_counts, schemas,
                 session_map>>

NextMatch ==
    \/ FindOne
    \/ Return

SpecMatch == Init /\ [][NextMatch]_vars

\* a handler of the SuggestionMatcher called with its suggestion, as
\* get_suggestion_matches means to call it
GetColumnMatches ==
    /\ Idle
    /\ \E suggestion \in ColumnSuggestions, word_before_cursor \in HandlerWords,
          server \in Servers :
          call' = HandlerCall("get_column_matches", suggestion, word_before_cursor, server,
                              get_column_matches(Self(server), suggestion,
                                                word_before_cursor))
    /\ UNCHANGED <<keywords, reserved_words, keyword_counts, name_counts, schemas,
                 session_map>>

GetFunctionMatches ==
    /\ Idle
    /\ \E suggestion \in FunctionSuggestions, word_before_cursor \in HandlerWords,
          server \in Servers :
          call' = HandlerCall("get_function_matches", suggestion, word_before_cursor, server,
                              get_function_matches(Self(server), suggestion,
                                                  word_before_cursor))
    /\ UNCHANGED <<keywords, reserved_words, keyword_counts, name_counts, schemas,
                 session_map>>

GetSchemaMatches ==
    /\ Idle
    /\ \E suggestion \in SchemaSuggestions, word_before_cursor \in HandlerWords,
          server \in Servers :
          call' = HandlerCall("get_schema_matches", suggestion, word_before_cursor, server,
                              get_schema_matches(Self(server), suggestion,
                                                word_before_cursor))
    /\ UNCHANGED <<keywords, reserved_words, keyword_counts, name_counts, schemas,
                 session_map>>

GetTableMatches ==
    /\ Idle
    /\ \E suggestion \in TableSuggestions, word_before_cursor \in HandlerWords,
          server \in Servers :
          call' = HandlerCall("get_table_matches", suggestion, word_before_cursor, server,
                              get_table_matches(Self(server), suggestion,
                                               word_before_cursor))
    /\ UNCHANGED <<keywords, reserved_words, keyword_counts, name_counts, schemas,
                 session_map>>

GetViewMatches ==
    /\ Idle
    /\ \E suggestion \in ViewSuggestions, word_before_cursor \in HandlerWords,
          server \in Servers :
          call' = HandlerCall("get_view_matches", suggestion, word_before_cursor, server,
                              get_view_matches(Self(server), suggestion,
                                              word_before_cursor))
    /\ UNCHANGED <<keywords, reserved_words, keyword_counts, name_counts, schemas,
                 session_map>>

GetAliasMatches ==
    /\ Idle
    /\ \E suggestion \in AliasSuggestions, word_before_cursor \in HandlerWords,
          server \in Servers :
          call' = HandlerCall("get_alias_matches", suggestion, word_before_cursor, server,
                              get_alias_matches(Self(server), suggestion,
                                               word_before_cursor))
    /\ UNCHANGED <<keywords, reserved_words, keyword_counts, name_counts, schemas,
                 session_map>>

GetDatabaseMatches ==
    /\ Idle
    /\ \E suggestion \in DatabaseSuggestions, word_before_cursor \in HandlerWords,
          server \in Servers :
          call' = HandlerCall("get_database_matches", suggestion, word_before_cursor, server,
                              get_database_matches(Self(server), suggestion,
                                                  word_before_cursor))
    /\ UNCHANGED <<keywords, reserved_words, keyword_counts, name_counts, schemas,
                 session_map>>

GetKeywordMatches ==
    /\ Idle
    /\ \E suggestion \in KeywordSuggestions, word_before_cursor \in HandlerWords,
          server \in Servers :
          call' = HandlerCall("get_keyword_matches", suggestion, word_before_cursor, server,
                              get_keyword_matches(Self(server), suggestion,
                                                 word_before_cursor))
    /\ UNCHANGED <<keywords, reserved_words, keyword_counts, name_counts, schemas,
                 session_map>>

GetDatatypeMatches ==
    /\ Idle
    /\ \E suggestion \in DatatypeSuggestions, word_before_cursor \in HandlerWords,
          server \in Servers :
          call' = HandlerCall("get_datatype_matches", suggestion, word_before_cursor, server,
                              get_datatype_matches(Self(server), suggestion,
                                                  word_before_cursor))
    /\ UNCHANGED <<keywords, reserved_words, keyword_counts, name_counts, schemas,
                 session_map>>

NextSuggest ==
    \/ GetSuggestionMatches
    \/ GetColumnMatches
    \/ GetFunctionMatches
    \/ GetSchemaMatches
    \/ GetTableMatches
    \/ GetViewMatches
    \/ GetAliasMatches
    \/ GetDatabaseMatches
    \/ GetKeywordMatches
    \/ GetDatatypeMatches
    \/ Return

SpecSuggest == Init /\ [][NextSuggest]_vars

\* find_matches step by step, with the usage-recording events of the host
\* arriving while the call is in flight.  The call reads a counter once for
\* each match, when it builds the priority of the match.

\* find_matches up to the loop: the text and the mode are fixed, no
\* candidate is looked at yet
BeginFindMatches ==
    /\ Idle
    /\ \E raw \in SessionTexts, collection \in Pools, mode \in Modes :
          call' = [op |-> "find_matches_in_flight", text |-> raw,
                   collection |-> collection, mode |-> mode, meta |-> NoneVal,
                   n |-> 0, matches |-> <<>>]
    /\ UNCHANGED <<keywords, reserved_words, keyword_counts, name_counts, schemas,
                 session_map>>

\* the finished call, as FindMatchesCall records it
FinishedCall(outcome) ==
    [op |-> "find_matches", text |-> call.text, collection |-> call.collection,
     mode |-> call.mode, meta |-> call.meta] @@ outcome

\* one iteration of the loop, on the next candidate, under the counters as
\* they are now; in the fuzzy branch a candidate that is no pair raises
\* ValueError when it is unpacked
LoopStep ==
    /\ InFlight
    /\ call.n < Len(call.collection)
    /\ LET fuzzy == (call.mode = MatchModeFuzzy)
           candidate == <<call.collection[call.n + 1]>>
       IN  call' = IF ~Unpackable(candidate, fuzzy)
                   THEN FinishedCall(Raises("ValueError"))
                   ELSE [call EXCEPT
                           !.n = @ + 1,
                           !.matches = @ \o matches_of(
                               LoopPairs(candidate, fuzzy, call.meta), 1,
                               partial_text(call.text), fuzzy,
                               keyword_counts, name_counts)]
    /\ UNCHANGED <<keywords, reserved_words, keyword_counts, name_counts, schemas,
                 session_map>>

\* return matches
EndFindMatches ==
    /\ InFlight
    /\ call.n = Len(call.collection)
    /\ call' = FinishedCall(Returns(call.matches))
    /\ UNCHANGED <<keywords, reserved_words, keyword_counts, name_counts, schemas,
                 session_map>>

\* the host records one use of a keyword / of a name while the call is in
\* flight
RecordKeywordUsageInFlight ==
    /\ InFlight
    /\ \E word \in UsedKeywords :
          /\ Count(keyword_counts, word) < MaxCount
          /\ keyword_counts' = Increment(keyword_counts, word)
    /\ UNCHANGED <<keywords, reserved_words, name_counts, schemas, session_map, call>>

RecordNameUsageInFlight ==
    /\ InFlight
    /\ \E name \in UsedNames :
          /\ Count(name_counts, name) < MaxCount
          /\ name_counts' = Increment(name_counts, name)
    /\ UNCHANGED <<keywords, reserved_words, keyword_counts, schemas, session_map, call>>

NextConcurrent ==
    \/ BeginFindMatches
    \/ LoopStep
    \/ EndFindMatches
    \/ RecordKeywordUsageInFlight
    \/ RecordNameUsageInFlight
    \/ Return

SpecConcurrent == Init /\ [][NextConcurrent]_vars

---------------------------------------------------------------------------
(* pgsqltoolsservice/scripting/scripter.py: Scripter.script_as_select *)

\* str.islower(): at least one cased character and no upper-case one
islower(s) ==
    /\ \E i \in 1..Len(s) : s[i] \in Range(LowerLetters)
    /\ \A i \in 1..Len(s) : s[i] \notin Range(UpperLetters)

\* Scripter.script_as_select(metadata): the name is wrapped in double
\* quotes when name.islower(), the schema is used as it is given, between
\* the fixed parts 'SELECT *\nFROM ' and '\nLIMIT 1000\n' of the script
script_as_select(metadata) ==
    LET select_from == <<"S","E","L","E","C","T"," ","*","\n","F","R","O","M"," ">>
        limit_1000 == <<"\n","L","I","M","I","T"," ","1","0","0","0","\n">>
        schema == metadata["schema"]
        name   == IF islower(metadata["name"])
                  THEN <<QUOTE>> \o metadata["name"] \o <<QUOTE>>
                  ELSE metadata["name"]
    IN  select_from \o schema \o <<".">> \o name \o limit_1000

\* the metadata of the requests: every schema and object name of the input
\* characters
Metadata == [schema : Texts, name : Texts]

\* a call of script_as_select on the metadata of an object
ScriptAsSelect ==
    /\ Idle
    /\ \E metadata \in Metadata :
          call' = [op |-> "script_as_select", metadata |-> metadata]
                     @@ Returns(script_as_select(metadata))
    /\ UNCHANGED <<keywords, reserved_words, keyword_counts, name_counts, schemas,
                 session_map>>

NextScripter ==
    \/ ScriptAsSelect
    \/ Return

SpecScripter == Init /\ [][NextScripter]_vars

---------------------------------------------------------------------------
(* pgsmo/objects/foreign_table/foreign_table.py: ForeignTable *)

\* ForeignTable.__init__(conn, name): the node's name, and the fields of
\* the foreign table all None
ForeignTable_init(name) ==
    ("name" :> name) @@ ("_oid" :> NoneVal) @@ ("_base_namespace" :> NoneVal)
        @@ ("_description" :> NoneVal) @@ ("_options" :> NoneVal)
        @@ ("_owner" :> NoneVal)

\* the keys _from_node_query reads of its row, in the order it reads them
node_query_keys == <<"name", "oid", "basensp", "description", "options", "owner">>

\* ForeignTable._from_node_query(conn, **kwargs): kwargs[key] of a key the
\* row does not hold raises KeyError
from_node_query(kwargs) ==
    IF \E i \in 1..Len(node_query_keys) : node_query_keys[i] \notin DOMAIN kwargs
    THEN Raises("KeyError")
    ELSE Returns([ForeignTable_init(kwargs["name"]) EXCEPT
                     !["_oid"] = kwargs["oid"],
                     !["_base_namespace"] = kwargs["basensp"],
                     !["_description"] = kwargs["description"],
                     !["_options"] = kwargs["options"],
                     !["_owner"] = kwargs["owner"]])

\* the properties of a ForeignTable and the field each one returns
foreign_table_properties ==
    [base_namespace |-> "_base_namespace", description |-> "_description",
     options |-> "_options", owner |-> "_owner"]

\* getattr(obj, attr) on a ForeignTable: a property, a field, or
\* AttributeError
getattr(obj, attr) ==
    IF attr \in DOMAIN foreign_table_properties
    THEN Returns(obj[foreign_table_properties[attr]])
    ELSE IF attr \in DOMAIN obj THEN Returns(obj[attr])
    ELSE Raises("AttributeError")

\* get_nodes(conn, TEMPLATE_ROOT, generator, scid=...): the generator on
\* every row of the query's answer, in order; the first exception ends it
RECURSIVE get_nodes(_, _)
get_nodes(rows, n) ==
    IF n = 0 THEN Returns(<<>>)
    ELSE LET before == get_nodes(rows, n - 1)
             node   == from_node_query(rows[n])
         IN  IF before.raised # "None" THEN before
             ELSE IF node.raised # "None" THEN node
             ELSE Returns(Append(before.ret, node.ret))

\* ForeignTable.get_nodes_for_parent(conn, schema_id) on the rows the
\* server answers with
get_nodes_for_parent(rows) == get_nodes(rows, Len(rows))

\* the values a row holds, and the rows of a node query: with the columns
\* of a function node (name, oid, description, lanname, funcowner) and with
\* the columns of a foreign table node
RowValues == {<<"a">>, <<"b">>}
FunctionRows ==
    [name : RowValues, oid : {1, 2}, description : RowValues,
     lanname : RowValues, funcowner : RowValues]
ForeignTableRows ==
    [name : RowValues, oid : {1, 2}, basensp : RowValues,
     description : RowValues, options : RowValues, owner : RowValues]
NodeRows == FunctionRows \cup ForeignTableRows
\* the rows the server answers a nodes query with
NodeRowLists ==
    {<<>>} \cup {<<r>> : r \in NodeRows}
           \cup {<<r, s>> : r \in {x \in NodeRows : x.oid = 1},
                            s \in {x \in NodeRows : x.oid = 2 /\ x.name = <<"b">>}}

\* a call of ForeignTable._from_node_query on one row
FromNodeQuery ==
    /\ Idle
    /\ \E row \in NodeRows :
          call' = [op |-> "_from_node_query", row |-> row]
                     @@ from_node_query(row)
    /\ UNCHANGED <<keywords, reserved_words, keyword_counts, name_counts, schemas,
                 session_map>>

\* a call of ForeignTable.get_nodes_for_parent; the server answers with rows
GetNodesForParent ==
    /\ Idle
    /\ \E rows \in NodeRowLists :
          call' = [op |-> "get_nodes_for_parent", rows |-> rows]
                     @@ get_nodes_for_parent(rows)
    /\ UNCHANGED <<keywords, reserved_words, keyword_counts, name_counts, schemas,
                 session_map>>

NextForeignTable ==
    \/ FromNodeQuery
    \/ GetNodesForParent
    \/ Return

SpecForeignTable == Init /\ [][NextForeignTable]_vars

---------------------------------------------------------------------------
(* populate_schema_objects called on its own *)

\* the kinds of object populate_schema_objects is asked for
ObjectTypes == {"tables", "views", "functions", "datatypes"}
\* the schema given to it: none, a schema of the session, an unknown one
SchemaFilters == {NoneVal, public, pg_temp, <<"x">>}
\* the object names of the requested kind the server holds in each schema
Catalogs == [{public, pg_temp} -> {<<>>, <<orders>>, <<pg_class, orders>>}]

\* a call of populate_schema_objects; the server holds a catalog and is in
\* some state during the call
PopulateSchemaObjects ==
    /\ Idle
    /\ \E schema_name \in SchemaFilters, obj_type \in ObjectTypes,
          server \in Servers, catalog \in Catalogs :
          call' = [op |-> "populate_schema_objects", schema_name |-> schema_name,
                   obj_type |-> obj_type, server |-> server, catalog |-> catalog]
                     @@ populate_schema_objects(Self(server), schema_name, obj_type)
    /\ UNCHANGED <<keywords, reserved_words, keyword_counts, name_counts, schemas,
                 session_map>>

NextPopulate ==
    \/ PopulateSchemaObjects
    \/ Return

SpecPopulate == Init /\ [][NextPopulate]_vars

---------------------------------------------------------------------------
(* the fuzzy _match of find_matches applied to an item *)

\* _match(item) of the fuzzy branch, for the text in the range and an item
FuzzyMatch ==
    /\ Idle
    /\ \E raw \in Texts, item \in Names :
          call' = [op |-> "_match", text |-> raw, item |-> item]
                     @@ Returns(fuzzy_match(partial_text(raw), item))
    /\ UNCHANGED <<keywords, reserved_words, keyword_counts, name_counts, schemas,
                 session_map>>

NextFuzzy ==
    \/ FuzzyMatch
    \/ FindOne
    \/ Return

SpecFuzzy == Init /\ [][NextFuzzy]_vars

---------------------------------------------------------------------------
(* pgsqltoolsservice/object_explorer/object_explorer_service.py *)

\* urllib.parse.quote(s): letters, digits and '_.-~/' are kept, every other
\* character is replaced by '%' and the two hex digits of its code
quote_char(c) ==
    LET hex  == <<"0","1","2","3","4","5","6","7","8","9","A","B","C","D","E","F">>
        safe == Range(LowerLetters) \cup Range(UpperLetters) \cup Range(Digits)
                   \cup {"_", ".", "-", "~", "/"}
        code == IF c = ";" THEN 59 ELSE Ord(c)
    IN  IF c \in safe THEN <<c>>
        ELSE <<"%", hex[(code \div 16) + 1], hex[(code % 16) + 1]>>
RECURSIVE quote(_)
quote(s) == IF s = <<>> THEN <<>> ELSE quote_char(Head(s)) \o quote(Tail(s))

\* the literals of the handlers
uri_scheme == <<"o","b","j","e","c","t","e","x","p","l","o","r","e","r",":","/","/">>
slash == <<"/">>
Views == <<"V","i","e","w","s">>
Tables == <<"T","a","b","l","e","s">>

\* ObjectExplorerService._generate_uri(params)
generate_uri(params) ==
    LET options == params.options
        uri_database == <<";","d","a","t","a","b","a","s","e","N","a","m","e","=">>
        uri_user == <<";","u","s","e","r","=">>
    IN  uri_scheme \o quote(options.host)
          \o (IF options.dbname # NoneVal THEN uri_database \o options.dbname ELSE <<>>)
          \o (IF options.user # NoneVal THEN uri_user \o options.user ELSE <<>>)

\* ConnectionDetails.from_data(server_name, database_name, user_name, opts):
\* the details hold each value as the first element of a field
ConnectionDetails_from_data(server_name, database_name, user_name) ==
    [server_name |-> <<server_name>>, database_name |-> <<database_name>>,
     user_name |-> <<user_name>>]

\* ObjectExplorerService._get_root_path(connection_details): str + None
\* raises TypeError
get_root_path(connection_details) ==
    IF connection_details.server_name[1] = NoneVal
           \/ connection_details.database_name[1] = NoneVal
    THEN Raises("TypeError")
    ELSE Returns(connection_details.server_name[1] \o slash
                   \o connection_details.database_name[1])

\* ObjectExplorerService._create_oe_connection(params, session_id) with the
\* service provider as it is during the request
create_oe_connection(params, provider) ==
    LET details == ConnectionDetails_from_data(params.options.host,
                       params.options.dbname, params.options.user)
    IN  IF ~provider.connection_service
        THEN Raises("LookupError")
        ELSE Returns(details)

\* the messages a request context sends
Response(value) == [kind |-> "response", value |-> value]
Notification(method, params) ==
    [kind |-> "notification", method |-> method, params |-> params]

\* a NodeInfo
NodeInfo(label, isLeaf, node_path, node_type, metadata) ==
    [label |-> label, isLeaf |-> isLeaf, node_path |-> node_path,
     node_type |-> node_type, metadata |-> metadata]
\* the metadata _get_view_nodes and _get_table_nodes attach to every node
spt_values_metadata ==
    [metadata_type |-> 0, metadata_type_name |-> "View", name |-> "spt_values",
     schema |-> "dbo"]

\* ObjectExplorerService._get_folder_nodes(root_path)
get_folder_nodes(root_path) ==
    << NodeInfo(Tables, FALSE, root_path \o slash \o Tables, "Folder", NoneVal),
       NodeInfo(Views, FALSE, root_path \o slash \o Views, "Folder", NoneVal) >>

\* the value None of a variable that holds a Database: it has no name
NoDatabase == [name |-> NoneVal, schemas |-> NoneVal]

\* ObjectExplorerService._get_database(session_id): the database of the
\* server that has the name of the session's database, None if none has
get_database(self, session_id, provider) ==
    IF ~provider.connection_service THEN Raises("LookupError")
    ELSE LET dbname == self.session_map[session_id].database_name[1]
         IN  IF \E i \in 1..Len(provider.databases) : provider.databases[i] = dbname
             THEN Returns([name |-> dbname, schemas |-> provider.schemas])
             ELSE Returns(NoDatabase)

\* the names cur_schema.name + '.' + object.name of the objects of a kind,
\* schema by schema
RECURSIVE object_labels(_, _, _)
object_labels(db_schemas, kind, n) ==
    IF n = 0 THEN <<>>
    ELSE object_labels(db_schemas, kind, n - 1)
           \o [i \in 1..Len(db_schemas[n][kind]) |->
                  db_schemas[n].name \o <<".">> \o db_schemas[n][kind][i]]

\* ObjectExplorerService._get_view_nodes / _get_table_nodes: database.schemas
\* of a database that is None raises AttributeError
get_object_nodes(self, session_id, root_path, provider, kind, folder, node_type) ==
    LET database == get_database(self, session_id, provider)
    IN  IF database.raised # "None" THEN database
        ELSE IF database.ret.name = NoneVal THEN Raises("AttributeError")
        ELSE LET labels == object_labels(database.ret.schemas, kind,
                                         Len(database.ret.schemas))
             IN  Returns([i \in 1..Len(labels) |->
                            NodeInfo(labels[i], TRUE,
                                     root_path \o slash \o folder \o slash \o labels[i],
                                     node_type, spt_values_metadata)])
get_view_nodes(self, session_id, root_path, provider) ==
    get_object_nodes(self, session_id, root_path, provider, "views", Views, "View")
get_table_nodes(self, session_id, root_path, provider) ==
    get_object_nodes(self, session_id, root_path, provider, "tables", Tables, "Table")

\* the outcome of a handler: the session map it leaves, the messages its
\* request context has sent, and the exception it raised, if any
Handled(map, sent, raised) == [map |-> map, sent |-> sent, raised |-> raised]

\* ObjectExplorerService._handle_create_session_request
handle_create_session_request(self, params, provider) ==
    LET session_id == generate_uri(params)
        connection_details == create_oe_connection(params, provider)
        stored == (session_id :> connection_details.ret) @@ self.session_map
        root == get_root_path(connection_details.ret)
        node == NodeInfo(params.options.dbname, FALSE, root.ret, "Database",
                         [metadata_type |-> 0, metadata_type_name |-> "Database",
                          name |-> params.options.dbname, schema |-> NoneVal])
    IN  IF connection_details.raised # "None"
        THEN Handled(self.session_map, <<>>, connection_details.raised)
        ELSE IF root.raised # "None" THEN Handled(stored, <<>>, root.raised)
        ELSE Handled(stored,
                     << Response([session_id |-> session_id]),
                        Notification("SESSION_CREATED_METHOD",
                                     [session_id |-> session_id, root_node |-> node]) >>,
                     "None")

\* ObjectExplorerService._handle_close_session_request
handle_close_session_request(self, params) ==
    Handled(self.session_map, <<Response(TRUE)>>, "None")

\* ObjectExplorerService._handle_expand_request
handle_expand_request(self, params, provider) ==
    IF params.session_id \notin DOMAIN self.session_map
    THEN Handled(self.session_map, <<>>, "KeyError")
    ELSE LET connection_details == self.session_map[params.session_id]
             root_path == get_root_path(connection_details)
             nodes ==
                IF params.node_path = root_path.ret \o slash \o Views
                THEN get_view_nodes(self, params.session_id, root_path.ret, provider)
                ELSE IF params.node_path = root_path.ret \o slash \o Tables
                THEN get_table_nodes(self, params.session_id, root_path.ret, provider)
                ELSE Returns(get_folder_nodes(root_path.ret))
         IN  IF root_path.raised # "None"
             THEN Handled(self.session_map, <<>>, root_path.raised)
             ELSE IF nodes.raised # "None"
             THEN Handled(self.session_map, <<>>, nodes.raised)
             ELSE Handled(self.session_map,
                          << Response(TRUE),
                             Notification("EXPAND_COMPLETED_METHOD",
                                 [session_id |-> params.session_id,
                                  node_path |-> params.node_path,
                                  nodes |-> nodes.ret]) >>,
                          "None")

\* the options of the create-session requests: with and without a user, a
\* host that quote() changes, no database name
CreateSessionParameters ==
    {[options |-> o] : o \in
        {[host |-> <<"h">>, dbname |-> <<"d">>, user |-> <<"u">>],
         [host |-> <<"h">>, dbname |-> <<"d">>, user |-> NoneVal],
         [host |-> <<"h", ";">>, dbname |-> <<"d">>, user |-> NoneVal],
         [host |-> <<"h">>, dbname |-> NoneVal, user |-> <<"u">>]}}
\* the session ids of the requests: those create-session generates, and one
\* that it never generates
SessionIds ==
    {generate_uri(p) : p \in CreateSessionParameters} \cup {uri_scheme \o <<"x">>}
\* the node paths of the expand requests: the root of a session, its Views
\* and Tables folders, a path below a folder
RootPaths == {<<"h">> \o slash \o <<"d">>, <<"h", ";">> \o slash \o <<"d">>}
NodePaths ==
    UNION {{r, r \o slash \o Views, r \o slash \o Tables,
            r \o slash \o Tables \o slash \o orders} : r \in RootPaths}
\* the service provider and the server during one request: whether the
\* connection service is registered, the databases of the server, and the
\* schemas of the session's database
Providers ==
    {pv \in [connection_service : BOOLEAN,
              databases : {<<>>, << <<"d">> >>},
              schemas : {<<>>, <<[name |-> public, tables |-> <<orders>>,
                                  views |-> <<>>]>>}] :
        /\ (~pv.connection_service) => pv.databases = <<>>
        /\ pv.databases = <<>> => pv.schemas = <<>>}

\* the ObjectExplorerService object of the session
Service == [session_map |-> session_map]

\* the record of a request handled: its parameters, what the handler sent
\* and raised
Request(op, params, provider, handled) ==
    [op |-> op, params |-> params, provider |-> provider,
     sent |-> handled.sent, raised |-> handled.raised, ret |-> NoneVal]

\* a create-session request is handled
HandleCreateSessionRequest ==
    /\ Idle
    /\ \E params \in CreateSessionParameters, provider \in Providers :
          LET handled == handle_create_session_request(Service, params, provider)
          IN  /\ session_map' = handled.map
              /\ call' = Request("create_session", params, provider, handled)
    /\ UNCHANGED <<keywords, reserved_words, keyword_counts, name_counts, schemas>>

\* a close-session request is handled
HandleCloseSessionRequest ==
    /\ Idle
    /\ \E session_id \in SessionIds, provider \in Providers :
          LET params == [session_id |-> session_id]
              handled == handle_close_session_request(Service, params)
          IN  /\ session_map' = handled.map
              /\ call' = Request("close_session", params, provider, handled)
    /\ UNCHANGED <<keywords, reserved_words, keyword_counts, name_counts, schemas>>

\* an expand request is handled
HandleExpandRequest ==
    /\ Idle
    /\ \E session_id \in SessionIds, node_path \in NodePaths, provider \in Providers :
          LET params == [session_id |-> session_id, node_path |-> node_path]
              handled == handle_expand_request(Service, params, provider)
          IN  /\ session_map' = handled.map
              /\ call' = Request("expand", params, provider, handled)
    /\ UNCHANGED <<keywords, reserved_words, keyword_counts, name_counts, schemas>>

NextObjectExplorer ==
    \/ HandleCreateSessionRequest
    \/ HandleCloseSessionRequest
    \/ HandleExpandRequest
    \/ Return

SpecObjectExplorer == Init /\ [][NextObjectExplorer]_vars

---------------------------------------------------------------------------
(* Properties *)

IsFindMatches == call.op = "find_matches"
Returned == call.raised = "None"
\* the candidate c is accepted by the call: a returned match carries it
Accepted(c) ==
    Returned /\ \E k \in 1..Len(call.ret) : call.ret[k].completion.label = c

Quoted(name) == <<QUOTE>> \o name \o <<QUOTE>>
\* the unescaped form of a text: without its first and last character when
\* these are a leading double quote and a separate trailing one
Unquoted(s) ==
    IF Len(s) >= 2 /\ s[1] = QUOTE /\ s[Len(s)] = QUOTE
    THEN SubSeq(s, 2, Len(s) - 1)
    ELSE s
\* reference checks on strings
Contains(s, t) ==
    \E i \in 0..(Len(s) - Len(t)) : SubSeq(s, i + 1, i + Len(t)) = t
StartsWith(s, t) == Len(t) <= Len(s) /\ SubSeq(s, 1, Len(t)) = t
IsSubsequence(t, s) ==
    \E f \in [1..Len(t) -> 1..Len(s)] :
        /\ \A i \in 1..Len(t) : s[f[i]] = t[i]
        /\ \A i \in 1..Len(t), j \in 1..Len(t) : i < j => f[i] < f[j]
\* a is before b in the lexicographic order of the character codes
StrLess(a, b) ==
    \/ Len(a) < Len(b) /\ SubSeq(b, 1, Len(a)) = a
    \/ \E i \in 1..Len(a) :
          /\ i <= Len(b)
          /\ SubSeq(a, 1, i - 1) = SubSeq(b, 1, i - 1)
          /\ Ord(a[i]) < Ord(b[i])

C2_FuzzyIsSubsequence ==
    (IsFindMatches /\ call.mode = MatchModeFuzzy /\ partial_text(call.text) # <<>>) =>
        \A c \in Range(call.collection) :
            Accepted(c) <=> IsSubsequence(partial_text(call.text),
                                          Unquoted(Lower(c)))

NeedsQuoting(name) ==
    (~name_pattern_match(name)) \/ (Upper(name) \in reserved_words)

\* C3 as stated: escape_name quotes the name exactly when it fails the
\* identifier pattern (the empty name included) or is a reserved word.
C3_EscapeQuotesIffNeedsQuoting ==
    call.op = "escape_name" =>
        call.ret = IF NeedsQuoting(call.name) THEN Quoted(call.name) ELSE call.name

\* C3 amended: escape_name returns the name in one pair of double quotes
\* exactly when the name is not empty and fails the identifier pattern or
\* has its upper-cased form in the reserved words; every other name, the
\* empty name included, is returned unchanged.
C3_EscapeQuotesNonEmptyIffNeedsQuoting ==
    call.op = "escape_name" =>
        /\ Returned
        /\ call.ret \in {call.name, Quoted(call.name)}
        /\ (call.ret = Quoted(call.name)) <=>
              (call.name # <<>> /\ NeedsQuoting(call.name))
        /\ call.name \in reserved_words => call.ret = Quoted(call.name)

\* a name that matches the pattern is quoted because it is a reserved word
C3_Witness ==
    /\ call.op = "escape_name"
    /\ name_pattern_match(call.name)
    /\ Upper(call.name) \in reserved_words
    /\ call.ret = Quoted(call.name)

\* C4: unescape_name undoes escape_name on every name that holds no double
\* quote, whatever the reserved words are.
C4_UnescapeInvertsEscape ==
    (call.op = "escape_name" /\ QUOTE \notin Range(call.name)) =>
        Returned /\ unescape_name(call.ret) = call.name

\* a name without a double quote was quoted by escape_name
C4_Witness ==
    /\ call.op = "escape_name"
    /\ QUOTE \notin Range(call.name)
    /\ call.ret = Quoted(call.name)
    /\ reserved_words # {}

\* C5: unescape_name strips the first and the last character only when the
\* text has a leading double quote and a separate trailing one; every other
\* text, the single double quote included, is returned unchanged.
C5_UnescapeStripsZeroOrTwo ==
    call.op = "unescape_name" =>
        /\ Returned
        /\ call.ret = Unquoted(call.name)

\* C6: a ranking request returns candidates of the pool, each once, sorted
\* ascending by the full ordering key: no returned element is followed by
\* one with a smaller key.
C6_ResultSortedAscending ==
    /\ call.op = "get_suggestion_matches" => Returned
    /\ (IsFindMatches /\ call.mode = MatchModeStrict) =>
          /\ Returned
          /\ \A k \in 1..Len(call.ret) :
                call.ret[k].completion.label \in Range(call.collection)
          /\ \A k \in 1..(Len(call.ret) - 1) :
                ~PriorityLess(call.ret[k + 1].priority, call.ret[k].priority)

\* the match-quality tuples of the fuzzy-mode matches of every text and
\* every candidate
FuzzyModeKeys ==
    UNION {LET r == find_matches(raw, <<c>>, MatchModeFuzzy, NoneVal, <<>>, <<>>)
           IN  IF r.raised = "None"
               THEN {r.ret[k].priority[1] : k \in 1..Len(r.ret)}
               ELSE {} : raw \in Texts, c \in Names}

\* C7 as stated: under the ascending order (smallest key first) every strict
\* match sorts after every fuzzy match.
C7_StrictAfterFuzzyAscending ==
    (IsFindMatches /\ call.mode = MatchModeStrict) =>
        \A k \in 1..Len(call.ret), f \in FuzzyModeKeys :
            SortKeyLess(f, call.ret[k].priority[1])

\* C7 amended: under the order the code defines (a higher priority is more
\* important: largest key first) every strict match, whose tuple is
\* (-inf, -offset), sorts after every fuzzy match, whose tuple is
\* (-span_length, -span_start); the offset of a strict match is always 0.
C7_StrictAfterFuzzyDescending ==
    (IsFindMatches /\ call.mode = MatchModeStrict) =>
        \A k \in 1..Len(call.ret) :
            /\ call.ret[k].priority[1][1] = NegInfinity
            /\ call.ret[k].priority[1][2] = 0
            /\ \A f \in FuzzyModeKeys : SortKeyLess(call.ret[k].priority[1], f)

\* a strict call with a match, and fuzzy matches to compare it with
C7_Witness ==
    /\ IsFindMatches /\ call.mode = MatchModeStrict
    /\ Returned /\ Len(call.ret) > 0
    /\ \E f \in FuzzyModeKeys : f[1].n < 0

\* C8: of two matches with equal match quality, the one with the strictly
\* higher usage count is earlier in the result; a match of better quality
\* is earlier whatever the counts are.
C8_HigherUsageRanksEarlier ==
    (IsFindMatches /\ Returned) =>
        \A i \in 1..Len(call.ret), j \in 1..Len(call.ret) :
            /\ (/\ call.ret[i].priority[1] = call.ret[j].priority[1]
                /\ call.ret[i].priority[2] > call.ret[j].priority[2]) => i < j
            /\ SortKeyLess(call.ret[j].priority[1], call.ret[i].priority[1]) => i < j

\* C9 as stated: no two distinct candidates of one call get equal keys.
C9_DistinctCandidatesDistinctKeys ==
    (IsFindMatches /\ Returned) =>
        \A i \in 1..Len(call.ret), j \in 1..Len(call.ret) :
            call.ret[i].completion.label # call.ret[j].completion.label =>
                call.ret[i].priority # call.ret[j].priority

\* C9 amended: no two candidates of one call whose unescaped forms differ
\* get equal keys (a name and its quoted form get the same lexical tuple);
\* when match quality and prevalence are equal, a candidate whose unescaped
\* form is a proper prefix of, or lexicographically before, the other's has
\* the greater key, which is the more important one.
C9_KeysOrderUnescapedNames ==
    (IsFindMatches /\ Returned) =>
        \A i \in 1..Len(call.ret), j \in 1..Len(call.ret) :
            LET mi == call.ret[i]
                mj == call.ret[j]
                ni == unescape_name(mi.completion.label)
                nj == unescape_name(mj.completion.label)
            IN  /\ ni # nj => mi.priority # mj.priority
                /\ ni = nj => mi.priority[3] = mj.priority[3]
                /\ (/\ mi.priority[1] = mj.priority[1]
                    /\ mi.priority[2] = mj.priority[2]
                    /\ StrLess(ni, nj)) => PriorityLess(mj.priority, mi.priority)

\* one call matches a name and an extension of it with equal quality and
\* prevalence, and a name and its quoted form
C9_Witness ==
    /\ IsFindMatches /\ Returned
    /\ \E i \in 1..Len(call.ret), j \in 1..Len(call.ret) :
          LET ni == call.ret[i].completion.label
              nj == call.ret[j].completion.label
          IN  /\ call.ret[i].priority[1] = call.ret[j].priority[1]
              /\ call.ret[i].priority[2] = call.ret[j].priority[2]
              /\ Len(ni) < Len(nj)
              /\ StartsWith(nj, ni)

\* C10: a name and the same name in double quotes get the same accept /
\* reject decision, the same match-quality tuple and the same prevalence
\* weight, in both modes.
C10_EscapingDoesNotAffectRanking ==
    IsFindMatches =>
        \A c \in Range(call.collection) :
            Quoted(c) \in Range(call.collection) =>
                /\ Returned
                /\ Accepted(c) <=> Accepted(Quoted(c))
                /\ \A i \in 1..Len(call.ret), j \in 1..Len(call.ret) :
                      (/\ call.ret[i].completion.label = c
                       /\ call.ret[j].completion.label = Quoted(c)) =>
                          /\ call.ret[i].priority[1] = call.ret[j].priority[1]
                          /\ call.ret[i].priority[2] = call.ret[j].priority[2]

---------------------------------------------------------------------------
(* Properties of the SuggestionMatcher *)

IsRequest ==
    call.op \in {"get_suggestion_matches"}
                    \cup {suggestion_matchers[t] : t \in SuggestionTypes}
\* the call is a request for a suggestion of one of the kinds
IsRequestFor(kinds) == IsRequest /\ call.suggestion.type \in kinds
\* the labels of the candidates the call returned
ResultLabels == {call.ret[k].completion.label : k \in 1..Len(call.ret)}
\* no label is returned twice
EachOnce == Cardinality(ResultLabels) = Len(call.ret)
\* the candidate matches the word before the cursor, as strict mode matches
MatchesWord(c) == StartsWith(Lower(c), partial_text(call.word_before_cursor))
\* the pool the catalog holds for the request: the schemas of the session
\* for a Schema suggestion, else the rows the server answers
ProviderPool ==
    IF call.suggestion.type = "Schema" THEN schemas ELSE call.server.rows
\* the server answers the request's query
ProviderUp == call.server.connected /\ call.server.status
NoSchemaFilter ==
    "schema" \in DOMAIN call.suggestion => call.suggestion.schema = NoneVal

\* C11: for a Schema, Table, View or Datatype suggestion the request returns,
\* and a matching candidate whose name starts with pg_ is left out of the
\* result if and only if no schema filter is given and the partial text does
\* not start with pg_; with the pool {pg_class, orders, pg_user} and no
\* filter, the text "" returns only orders and the text "pg_" returns
\* pg_class and pg_user.
C11_PgSuppression ==
    (IsRequestFor({"Schema", "Table", "View", "Datatype"}) /\ ProviderUp) =>
        /\ Returned
        /\ \A c \in Range(ProviderPool) :
              (str_startswith(c, pg_prefix) /\ MatchesWord(c)) =>
                  (c \notin ResultLabels <=>
                      (/\ NoSchemaFilter
                       /\ ~StartsWith(call.word_before_cursor, pg_prefix)))
        /\ (NoSchemaFilter /\ ProviderPool = <<pg_class, orders, pg_user>>) =>
              /\ call.word_before_cursor = <<>> => ResultLabels = {orders}
              /\ call.word_before_cursor = pg_prefix =>
                    ResultLabels = {pg_class, pg_user}

\* the number of times a column name occurs in the columns of the tables
Occurrences(tables, col) ==
    Cardinality({p \in (1..Len(tables)) \X (1..2) :
                    /\ p[2] <= Len(call.server.columns[tables[p[1]]])
                    /\ call.server.columns[tables[p[1]]][p[2]] = col})
ColumnNames(tables) ==
    UNION {Range(call.server.columns[tables[i]]) : i \in 1..Len(tables)}

\* C12: a Column suggestion with the unique-only flag returns exactly the
\* matching column names that occur more than once in the columns of all its
\* tables, never the wildcard, each once: for t1 = {id, name} and
\* t2 = {id, email} and the text "" exactly {id}.
C12_UniqueColumnFilter ==
    (IsRequestFor({"Column"}) /\ ProviderUp /\ call.suggestion.drop_unique) =>
        /\ Returned
        /\ EachOnce
        /\ ResultLabels =
              {col \in ColumnNames(call.suggestion.tables) :
                  /\ Occurrences(call.suggestion.tables, col) > 1
                  /\ col # wildcard
                  /\ MatchesWord(col)}
        /\ (call.suggestion.tables = <<t1, t2>> /\ call.word_before_cursor = <<>>)
              => ResultLabels = {<<"i", "d">>}

\* C13: a Function suggestion returns every matching function name of the
\* populated pool exactly once, whatever number of overloads share the name.
C13_FunctionNamesOnce ==
    (IsRequestFor({"Function"}) /\ ProviderUp) =>
        /\ Returned
        /\ EachOnce
        /\ ResultLabels = {f \in Range(call.server.rows) : MatchesWord(f)}

---------------------------------------------------------------------------
(* Properties of the label attached to a match *)

Ellipsis == <<".", ".", ".">>

\* C14: the label attached to a match is the label of its candidate when
\* this has at most 50 characters, and the first 47 characters of the label
\* followed by '...', 50 characters in all, when it has more; a candidate
\* without label gets none.  In strict mode the label of every candidate is
\* the meta of the call, in fuzzy mode it is what the loop unpacks from the
\* candidate.  No attached label is longer than 50 characters.
C14_LabelTruncatedTo50 ==
    (IsFindMatches /\ Returned) =>
        \A k \in 1..Len(call.ret) :
            LET detail == call.ret[k].completion.detail
            IN  /\ detail # NoneVal => Len(detail) <= 50
                /\ call.mode = MatchModeStrict =>
                      IF call.meta = NoneVal THEN detail = NoneVal
                      ELSE IF Len(call.meta) <= 50 THEN detail = call.meta
                      ELSE /\ detail = SubSeq(call.meta, 1, 47) \o Ellipsis
                           /\ Len(detail) = 50
                /\ call.mode = MatchModeFuzzy =>
                      \E c \in Range(call.collection) :
                          /\ call.ret[k].completion.label = <<c[1]>>
                          /\ detail = <<c[2]>>

\* a strict call with a label of 60 characters that returned two matches,
\* each with a label of 50 characters
C14_Witness ==
    /\ IsFindMatches /\ Returned
    /\ call.mode = MatchModeStrict
    /\ call.meta # NoneVal /\ Len(call.meta) = 60
    /\ Len(call.ret) >= 2
    /\ \A k \in 1..Len(call.ret) :
          /\ Len(call.ret[k].completion.detail) = 50
          /\ SubSeq(call.ret[k].completion.detail, 48, 50) = Ellipsis

---------------------------------------------------------------------------
(* Properties of the order of the result *)

\* the pool in every order of iteration
Reorderings(pool) ==
    {[i \in 1..Len(pool) |-> pool[f[i]]] :
        f \in {g \in [1..Len(pool) -> 1..Len(pool)] :
                 \A i \in 1..Len(pool), j \in 1..Len(pool) :
                     g[i] = g[j] => i = j}}

\* C15: a find_matches call returns what the call with the same partial
\* text, mode, meta, counters and reserved words returns on the same pool
\* supplied in any other order of iteration: the same candidates in the same
\* order.
C15_RankingDeterministic ==
    IsFindMatches =>
        \A pool \in Reorderings(call.collection) :
            LET other == find_matches(call.text, pool, call.mode, call.meta,
                                      keyword_counts, name_counts)
            IN  /\ other.raised = call.raised
                /\ other.ret = call.ret

---------------------------------------------------------------------------
(* Properties of the failures of a request *)

IsRanking == call.op = "get_suggestion_matches"
\* the kinds whose pool populate_schema_objects asks the server for
PopulatedKinds == {"Function", "Table", "View", "Datatype"}

C17_CatalogFailurePropagates ==
    (IsRequestFor(PopulatedKinds) /\ ~ProviderUp) =>
        /\ ~Returned
        /\ call.raised = "CatalogUnavailable"

\* the pool of the request is empty
EmptyPool ==
    CASE call.suggestion.type = "Alias" -> call.suggestion.aliases = <<>>
      [] call.suggestion.type = "Schema" -> schemas = <<>>
      [] call.suggestion.type = "Database" -> call.server.databases = <<>>
      [] call.suggestion.type \in PopulatedKinds -> call.server.rows = <<>>
      [] OTHER -> FALSE

\* C18: a request whose pool is empty (the server answers no rows for the
\* kind, or the Alias suggestion has no aliases) completes and returns the
\* empty sequence; so does find_matches on an empty collection.
C18_EmptyPoolIsNoError ==
    /\ (IsRequest /\ ProviderUp /\ EmptyPool) =>
          /\ Returned
          /\ call.ret = <<>>
    /\ (IsFindMatches /\ call.collection = <<>>) =>
          /\ Returned
          /\ call.ret = <<>>

---------------------------------------------------------------------------
(* Properties of the session state *)

\* C19: no call of escape_name, unescape_name, find_matches or
\* get_suggestion_matches writes the session state: the keyword list and the
\* reserved words never change after the initialization, a step that starts
\* or ends a call leaves both counters as they are, and a counter changes
\* only by one recorded use of one key, in a step that is no call.
C19_RankingWritesNoSessionState ==
    [][/\ keywords' = keywords
       /\ reserved_words' = reserved_words
       /\ call' # call =>
             (keyword_counts' = keyword_counts /\ name_counts' = name_counts)
       /\ keyword_counts' # keyword_counts =>
             /\ name_counts' = name_counts
             /\ \E word \in UsedKeywords :
                   keyword_counts' = Increment(keyword_counts, word)
       /\ name_counts' # name_counts =>
             /\ keyword_counts' = keyword_counts
             /\ \E name \in UsedNames :
                   name_counts' = Increment(name_counts, name)]_vars

\* a find_matches call has returned matches in a session with reserved
\* words and with recorded uses in both counters
C19_Witness ==
    /\ IsFindMatches /\ Returned
    /\ Len(call.ret) > 0
    /\ reserved_words # {}
    /\ keyword_counts # <<>>
    /\ name_counts # <<>>
    /\ \E k \in 1..Len(call.ret) : call.ret[k].priority[2] > 0

\* the candidate matches the partial text in the mode of the call
MatchesInMode(c) ==
    IF call.mode = MatchModeFuzzy
    THEN IsSubsequence(partial_text(call.text), unescape_name(Lower(c)))
    ELSE StartsWith(Lower(c), partial_text(call.text))
\* the number of matches returned for the candidate and the number of times
\* the pool lists it
TimesReturned(c) ==
    Cardinality({k \in 1..Len(call.ret) : call.ret[k].completion.label = c})
TimesListed(c) ==
    Cardinality({i \in 1..Len(call.collection) : call.collection[i] = c})

\* C20: a find_matches call during which usage-recording events arrive
\* completes and returns exactly the candidates of the pool that match the
\* partial text, each once for each time the pool lists it, in the order of
\* the pool; the prevalence of a match is a value its counter had during
\* the call.
C20_InterleavedCallCorrect ==
    (IsFindMatches /\ (keyword_counts # <<>> \/ name_counts # <<>>)) =>
        /\ Returned
        /\ \A c \in Range(call.collection) :
              TimesReturned(c) = IF MatchesInMode(c) THEN TimesListed(c) ELSE 0
        /\ \A k \in 1..Len(call.ret) :
              /\ call.ret[k].completion.label \in Range(call.collection)
              /\ call.ret[k].priority[2] \in 0..MaxCount

\* a word that is not lower-cased: mixed-case or upper-case
NonLowerCased(s) == Lower(s) # s
\* a word of lower-case letters only
AllLowerCase(s) == s # <<>> /\ \A i \in 1..Len(s) : s[i] \in Range(LowerLetters)

\* C21: script_as_select escapes non-lower-cased words: when the schema and
\* the object name are mixed-case or upper-case the script contains both in
\* double quotes ("MySchema"."MyTable"); when both are all lower-case the
\* script contains them unquoted (myschema.mytable).
C21_SelectEscapesNonLowerCased ==
    call.op = "script_as_select" =>
        LET schema == call.metadata["schema"]
            name   == call.metadata["name"]
        IN  /\ Returned
            /\ (NonLowerCased(schema) /\ NonLowerCased(name)) =>
                  Contains(call.ret, Quoted(schema) \o <<".">> \o Quoted(name))
            /\ (AllLowerCase(schema) /\ AllLowerCase(name)) =>
                  Contains(call.ret, schema \o <<".">> \o name \o <<"\n">>)

\* the keys of a function node's row
FunctionRowKeys == {"name", "oid", "description", "lanname", "funcowner"}
\* the ForeignTable obj carries the values of the row
CarriesRow(obj, row) ==
    /\ getattr(obj, "name") = Returns(row["name"])
    /\ getattr(obj, "_oid") = Returns(row["oid"])
    /\ getattr(obj, "_description") = Returns(row["description"])
    /\ getattr(obj, "description") = Returns(row["description"])
    /\ getattr(obj, "_lanname") = Returns(row["lanname"])
    /\ getattr(obj, "language") = Returns(row["lanname"])
    /\ getattr(obj, "_owner") = Returns(row["funcowner"])
    /\ getattr(obj, "owner") = Returns(row["funcowner"])

\* C22: a ForeignTable built by _from_node_query, directly or for each row
\* through get_nodes_for_parent, carries the row's name and oid, and its
\* description, language and owner properties (with the backing fields)
\* equal the row's description, lanname and funcowner values, for a row
\* holding the keys name, oid, description, lanname and funcowner.
C22_ForeignTableCarriesRow ==
    /\ (call.op = "_from_node_query" /\ DOMAIN call.row = FunctionRowKeys) =>
          Returned /\ CarriesRow(call.ret, call.row)
    /\ (/\ call.op = "get_nodes_for_parent"
        /\ \A i \in 1..Len(call.rows) : DOMAIN call.rows[i] = FunctionRowKeys) =>
          /\ Returned
          /\ Len(call.ret) = Len(call.rows)
          /\ \A i \in 1..Len(call.rows) : CarriesRow(call.ret[i], call.rows[i])

\* the schemas a populate call is scoped to: the named schema when a filter
\* is given, every schema of the session otherwise
ResolvedScope ==
    IF Truthy(call.schema_name) THEN {call.schema_name} ELSE Range(schemas)
\* the names the catalog holds in the schemas of the scope
NamesInScope ==
    UNION {Range(call.catalog[s]) : s \in ResolvedScope \cap DOMAIN call.catalog}

\* C23: populate(schema_filter, kind) resolves the scope to the single named
\* schema when a filter is given and to every schema of the search path when
\* none is given, and returns exactly the union of the catalog's names of
\* the requested kind in those schemas: no name from a schema outside the
\* scope, and no name of the scope missing (on a session that has schemas,
\* for a filter that names one of them or none, with the provider up).
C23_PopulateReturnsScopeUnion ==
    (/\ call.op = "populate_schema_objects"
     /\ ProviderUp
     /\ call.schema_name \in {NoneVal} \cup Range(schemas)
     /\ schemas # <<>>) =>
        /\ Returned
        /\ Range(call.ret) = NamesInScope

\* the embeddings of t in s as a subsequence: the positions of s, in
\* increasing order, that hold the characters of t
Embeddings(t, s) ==
    {f \in [1..Len(t) -> 1..Len(s)] :
        /\ \A i \in 1..Len(t) : s[f[i]] = t[i]
        /\ \A i \in 1..Len(t), j \in 1..Len(t) : i < j => f[i] < f[j]}
\* the span of the leftmost-then-shortest embedding of t in s: the smallest
\* 0-based position an embedding starts at, and the length of the shortest
\* embedding that starts there
LeftmostShortestSpan(t, s) ==
    IF t = <<>> THEN [start |-> 0, length |-> 0]
    ELSE LET first == CHOOSE f \in Embeddings(t, s) :
                          \A g \in Embeddings(t, s) : f[1] <= g[1]
             short == CHOOSE f \in Embeddings(t, s) :
                          /\ f[1] = first[1]
                          /\ \A g \in Embeddings(t, s) :
                                g[1] = first[1] => f[Len(t)] <= g[Len(t)]
         IN  [start |-> first[1] - 1, length |-> short[Len(t)] - short[1] + 1]
\* the match-quality tuple the claim states for the text and a candidate
SpanKey(raw, candidate) ==
    LET span == LeftmostShortestSpan(partial_text(raw), Unquoted(Lower(candidate)))
    IN  <<Int_(-span.length), -span.start>>

\* C24: for an accepted fuzzy match the match-quality tuple is
\* (-span_length, -span_start) of the leftmost-then-shortest embedding of
\* the partial text in the unescaped lower-cased candidate, both when _match
\* is applied to an item and for every match a fuzzy find_matches call
\* returns.
C24_FuzzyKeyIsLeftmostShortestSpan ==
    /\ (call.op = "_match" /\ call.ret.ok) =>
          call.ret.key = SpanKey(call.text, call.item)
    /\ (IsFindMatches /\ call.mode = MatchModeFuzzy /\ Returned) =>
          \A k \in 1..Len(call.ret) :
              /\ call.ret[k].priority[1]
                    = SpanKey(call.text, call.ret[k].completion.label)
              /\ call.ret[k].priority[1] = SpanKey(call.text, call.collection[k])

\* C24 happens: _match accepts an item in which the partial text has a gap
\* and a shorter embedding starts further right than the leftmost one
C24_Witness ==
    /\ call.op = "_match"
    /\ call.ret.ok
    /\ call.ret.key = <<Int_(-3), 0>>
    /\ Len(partial_text(call.text)) = 2
    /\ \E f \in Embeddings(partial_text(call.text), Unquoted(Lower(call.item))) :
          f[1] = 2 /\ f[2] = 3

\* the outcome of the routine registered for the kind of the request, called
\* with the request's suggestion and word
RegisteredRoutineOutcome ==
    call_handler(suggestion_matchers[call.suggestion.type], Self(call.server),
                 call.suggestion, call.word_before_cursor)

\* C25: the suggestion tag alone selects the handler: for each of the nine
\* kinds get_suggestion_matches invokes the one routine registered for that
\* tag, with the given suggestion and partial text, and returns that
\* routine's matches; every kind completes its dispatch (the call of the
\* routine does not fail with the TypeError of a wrong argument count).
C25_TagSelectsHandler ==
    (IsRanking /\ call.suggestion.type \in SuggestionTypes) =>
        /\ [raised |-> call.raised, ret |-> call.ret] = RegisteredRoutineOutcome
        /\ call.raised # "TypeError"

\* the request context of the call sent exactly one response (True) followed
\* by exactly one expand-completed notification for the request
AnsweredOnce ==
    /\ Len(call.sent) = 2
    /\ call.sent[1] = Response(TRUE)
    /\ call.sent[2].kind = "notification"
    /\ call.sent[2].method = "EXPAND_COMPLETED_METHOD"
    /\ call.sent[2].params.session_id = call.params.session_id
    /\ call.sent[2].params.node_path = call.params.node_path

\* C26: after any sequence of create-session, close-session and expand
\* requests, every expand request whose session_id was stored by an earlier
\* create-session request (no handler removes an entry, so: is in the
\* session map) is answered with exactly one response (True) followed by
\* exactly one expand-completed notification carrying the request's
\* session_id and node_path; an expand request for an id that was never
\* created sends neither.
C26_ExpandAnsweredOnce ==
    call.op = "expand" =>
        IF call.params.session_id \in DOMAIN session_map
        THEN AnsweredOnce
        ELSE call.sent = <<>>

====
